---- MODULE Spec2Model ----
(***************************************************************************)
(* The payment ledger of DimaTechTestTask: PaymentService.process_payment  *)
(* and the DAL calls it makes, over the user, account and payment tables.  *)
(*                                                                         *)
(* Every request gets an AsyncSession of its own (get_db_session), and     *)
(* every DAL method opens and commits its own transaction                  *)
(* (async with self.db_session.begin()).  One DAL call is therefore one    *)
(* atomic step against the database, and the steps of concurrent requests  *)
(* interleave at every await.  ORM objects loaded by one DAL call are kept *)
(* by the request and read again later without being reloaded.             *)
(***************************************************************************)
EXTENDS Integers, Sequences, FiniteSets, TLC

VARIABLES users, accounts, payments, req, opening

vars == <<users, accounts, payments, req, opening>>

-----------------------------------------------------------------------------
(* Bounds of the model *)

\* number of requests (POST /payment/ or GET /payment/) that are served,
\* concurrently or in turn
MaxCalls == 2

Requests == 1..MaxCalls

\* user ids a request may name: 1 and 2 are users, 3 is an admin, 4 is no user
UserIds == {1, 2, 3, 4}

\* PaymentSchema: account_id > 0
AccountIds == {1, 2}

TransactionIds == {"t0", "t1"}

\* PaymentSchema: amount > 0.0; the float 2.0 (the stored payment t0 is of 1.0)
Amounts == {2}

-----------------------------------------------------------------------------
(* hashing.py *)

SECRET_KEY == <<"k">>

\* sorted() over the keys a payment dict can hold
KeyOrder == <<"account_id", "amount", "signature", "transaction_id", "user_id">>

Digit(d) == <<"0", "1", "2", "3", "4", "5", "6", "7", "8", "9">>[d + 1]

RECURSIVE IntStr(_)
IntStr(n) == IF n < 10 THEN <<Digit(n)>> ELSE IntStr(n \div 10) \o <<Digit(n % 10)>>

\* str() of a float with an integral value
FloatStr(x) == IntStr(x) \o <<".", "0">>

\* str(data[key]) for the value types of a payment dict
StrOf(data, key) ==
    IF key \in {"account_id", "user_id"} THEN IntStr(data[key])
    ELSE IF key = "amount" THEN FloatStr(data[key])
    ELSE IF key = "transaction_id" THEN <<data[key]>>
    ELSE data[key]

RECURSIVE Concat(_, _)
Concat(data, keys) ==
    IF keys = <<>> THEN <<>>
    ELSE StrOf(data, Head(keys)) \o Concat(data, Tail(keys))

\* hashlib.sha256(...).hexdigest(), as an injective function of the message
Sha256Hex(message) == <<"sha256">> \o message

_generate_signature(data) ==
    LET keys == SelectSeq(KeyOrder, LAMBDA k : k \in DOMAIN data /\ k # "signature")
    IN  Sha256Hex(Concat(data, keys) \o SECRET_KEY)

\* a verifier that recomputes the signature and compares
verify_signature_recomputed(data) ==
    IF "signature" \in DOMAIN data /\ data.signature = _generate_signature(data)
    THEN data.signature ELSE <<>>

\* data.get("signature", False)
verify_signature(data) ==
    IF "signature" \in DOMAIN data THEN data.signature ELSE <<>>

\* truth value of a str (or of False)
Truthy(s) == s # <<>>

\* the dict _check_payment hands to verify_signature
SignatureData(q) ==
    [transaction_id |-> q.transaction_id, user_id |-> q.user_id,
     account_id |-> q.account_id, amount |-> q.amount, signature |-> q.signature]

EmptySignature == <<>>

ForgedSignature == <<"f">>

\* the signature a client that knows the secret computes for each payment
SignedWithSecret ==
    [t \in TransactionIds, u \in UserIds, a \in AccountIds, m \in Amounts |->
        _generate_signature([transaction_id |-> t, user_id |-> u,
                             account_id |-> a, amount |-> m])]

\* the signatures a request with these fields is submitted with
Signatures(t, u, a, m) ==
    {EmptySignature, ForgedSignature, SignedWithSecret[t, u, a, m]}

-----------------------------------------------------------------------------
(* models.py, dals.py *)

None == [none |-> TRUE]

\* Account: account_id primary key, balance default 0, user_id
NewAccount(account_id, user_id) ==
    [account_id |-> account_id, user_id |-> user_id, balance |-> 0]

\* the attributes Payment(...) accepts as keyword arguments
PaymentAttrs ==
    {"payment_id", "transaction_id", "amount", "account_id", "account", "signature"}

\* the required parameters of PaymentDAL.add_payment_to_database
AddPaymentParams ==
    {"transaction_id", "user_id", "account_id", "amount", "signature"}

\* the keyword arguments process_payment calls add_payment_to_database with
AddPaymentKwargs(q) ==
    [transaction_id |-> q.transaction_id, account_id |-> q.account_id,
     amount |-> q.amount, signature |-> q.signature]

\* a lookup that finds no row
get_payment_blind(pays, transaction_id) == None

\* PaymentDAL.get_payment: the first row with this transaction_id, or None
get_payment(pays, transaction_id) ==
    IF \E i \in 1..Len(pays) : pays[i].transaction_id = transaction_id
    THEN pays[CHOOSE i \in 1..Len(pays) :
                /\ pays[i].transaction_id = transaction_id
                /\ \A j \in 1..(i - 1) : pays[j].transaction_id # transaction_id]
    ELSE None

PaymentRow(pays, kw) ==
    [payment_id |-> Len(pays) + 1, transaction_id |-> kw.transaction_id,
     account_id |-> kw.account_id, amount |-> kw.amount, signature |-> kw.signature]

\* an insert that neither binds its arguments nor checks a constraint
add_payment_unchecked(pays, accts, kw) ==
    [exc |-> "ok", payments |-> Append(pays, PaymentRow(pays, kw))]

\* an insert that replaces the rows of the table by the new row
add_payment_overwriting(pays, accts, kw) ==
    [exc |-> "ok", payments |-> <<PaymentRow(<<>>, kw)>>]

\* the call of add_payment_to_database with keyword arguments kw: the binding
\* of the arguments, Payment(...), and the INSERT under the table's constraints
add_payment_to_database(pays, accts, kw) ==
    IF DOMAIN kw # AddPaymentParams
    THEN [exc |-> "TypeError", payments |-> pays]
    ELSE IF ~(DOMAIN kw \subseteq PaymentAttrs)
    THEN [exc |-> "TypeError", payments |-> pays]
    ELSE IF get_payment(pays, kw.transaction_id) # None
    THEN [exc |-> "IntegrityError", payments |-> pays]
    ELSE IF kw.account_id \notin DOMAIN accts
    THEN [exc |-> "IntegrityError", payments |-> pays]
    ELSE [exc |-> "ok", payments |-> Append(pays, PaymentRow(pays, kw))]

-----------------------------------------------------------------------------
(* The database when the service starts *)

SeedUsers ==
    (1 :> [is_admin |-> FALSE, full_name |-> "n0"])
    @@ (2 :> [is_admin |-> FALSE, full_name |-> "n0"])
    @@ (3 :> [is_admin |-> TRUE, full_name |-> "n0"])

SeedSignature ==
    _generate_signature([transaction_id |-> "t0", user_id |-> 1,
                         account_id |-> 1, amount |-> 1])

\* account 1 of user 1, either untouched or holding the payment t0
SeedLedgers ==
    { [accounts |-> (1 :> [account_id |-> 1, user_id |-> 1, balance |-> 0]),
       payments |-> <<>>],
      [accounts |-> (1 :> [account_id |-> 1, user_id |-> 1, balance |-> 1]),
       payments |-> <<[payment_id |-> 1, transaction_id |-> "t0", account_id |-> 1,
                       amount |-> 1, signature |-> SeedSignature]>>] }

IdleRequest ==
    [pc |-> "idle", transaction_id |-> "t0", user_id |-> 1, account_id |-> 1,
     amount |-> 1, signature |-> EmptySignature, account |-> None,
     outcome |-> "none", writes |-> <<>>, retry |-> FALSE,
     pending |-> {}, found |-> <<>>]

Init ==
    /\ users = SeedUsers
    /\ \E s \in SeedLedgers : accounts = s.accounts /\ payments = s.payments
    /\ opening = [accounts |-> accounts, payments |-> payments]
    /\ req = [r \in Requests |-> IdleRequest]

-----------------------------------------------------------------------------
(* services.py: PaymentService.process_payment *)

\* an exception leaves process_payment: the request is over, its locals are gone
Raise(r, exc) ==
    req' = [req EXCEPT ![r].pc = "done", ![r].outcome = exc, ![r].account = None]

\* a handler that answers every ValueError with one fixed detail
ResponseWithoutDetail(outcome) ==
    IF outcome = "ok"
    THEN [status |-> 200, detail |-> "Payment was successfully processed"]
    ELSE IF outcome \in {"User does not exist",
                         "Account does not belong to the specified user",
                         "Transaction with this id already exists",
                         "Signature is incorrect"}
    THEN [status |-> 400, detail |-> "Bad Request"]
    ELSE IF outcome = "PermissionError"
    THEN [status |-> 403, detail |-> "Cannot process a payment if the user is an admin"]
    ELSE [status |-> 500, detail |-> "Internal Server Error"]

\* api/payment.py: what the handler of POST /payment/ answers for the way
\* process_payment ended; an exception it does not catch is a 500
Response(outcome) ==
    IF outcome = "ok"
    THEN [status |-> 200, detail |-> "Payment was successfully processed"]
    ELSE IF outcome \in {"User does not exist",
                         "Account does not belong to the specified user",
                         "Transaction with this id already exists",
                         "Signature is incorrect"}
    THEN [status |-> 400, detail |-> outcome]
    ELSE IF outcome = "PermissionError"
    THEN [status |-> 403, detail |-> "Cannot process a payment if the user is an admin"]
    ELSE [status |-> 500, detail |-> "Internal Server Error"]

\* Requests are interchangeable, so they are numbered by their bodies and not
\* by their arrival: BodyRank orders the bodies, and request r may arrive at
\* any time with a body that keeps the ranks of the arrived requests sorted.
TransactionRank(t) == IF t = "t0" THEN 0 ELSE 1

SignatureRank(sig) ==
    IF sig = <<>> THEN 0 ELSE IF Head(sig) = "f" THEN 1 ELSE 2

\* the request is a GET /payment/
Reading(q) ==
    q.pc \in {"get_accounts_by_user_id", "get_payments_by_account_id", "listed"}

PaymentRank(t, u, a, m, sig) ==
    (((TransactionRank(t) * 5 + u) * 3 + a) * 3 + m) * 3 + SignatureRank(sig)

ListRank(u) == 300 + u

BodyRank(q) ==
    IF Reading(q) THEN ListRank(q.user_id)
    ELSE PaymentRank(q.transaction_id, q.user_id, q.account_id, q.amount, q.signature)

Arrived(r) == req[r].pc # "idle"

\* request r may arrive with a body of rank k
Fits(r, k) ==
    \A s \in Requests :
        Arrived(s) => IF s < r THEN BodyRank(req[s]) <= k ELSE k <= BodyRank(req[s])

\* the client sends this body again after a request with the same body was
\* answered 500
Resubmitted(t, u, a, m, sig) ==
    \E s \in Requests :
        /\ req[s].pc = "done"
        /\ Response(req[s].outcome).status = 500
        /\ req[s].transaction_id = t /\ req[s].user_id = u /\ req[s].account_id = a
        /\ req[s].amount = m /\ req[s].signature = sig

\* POST /payment/ with a body PaymentSchema accepts
Submit(r) ==
    /\ ~Arrived(r)
    /\ \E t \in TransactionIds, u \in UserIds, a \in AccountIds, m \in Amounts :
         \E sig \in Signatures(t, u, a, m) :
            LET q == [IdleRequest EXCEPT !.pc = "check_user", !.transaction_id = t,
                                         !.user_id = u, !.account_id = a,
                                         !.amount = m, !.signature = sig]
            IN  /\ Fits(r, PaymentRank(t, u, a, m, sig))
                /\ req' = [req EXCEPT
                             ![r] = [q EXCEPT !.retry = Resubmitted(t, u, a, m, sig)]]
    /\ UNCHANGED <<users, accounts, payments, opening>>

\* a lookup that ignores the id and returns the first user
get_user_by_any_id(us, user_id) ==
    us[CHOOSE u \in DOMAIN us : \A v \in DOMAIN us : u <= v]

\* UserDAL.get_user_by_id: the row with this user_id, or None
get_user_by_id(us, user_id) ==
    IF user_id \in DOMAIN us THEN us[user_id] ELSE None

\* _check_user
CheckUser(r) ==
    /\ req[r].pc = "check_user"
    /\ LET user == get_user_by_id(users, req[r].user_id)
       IN  IF user = None
           THEN Raise(r, "User does not exist")
           ELSE IF user.is_admin
           THEN Raise(r, "PermissionError")
           ELSE req' = [req EXCEPT ![r].pc = "check_account"]
    /\ UNCHANGED <<users, accounts, payments, opening>>

\* the comparison inverted
OwnerSame(account, user_id) == account.user_id = user_id

\* account.user_id != user_id
OwnerDiffers(account, user_id) == account.user_id # user_id

\* _check_account without the comparison of the owner
CheckAccountOfAnyOwner(r) ==
    /\ req[r].pc = "check_account"
    /\ req' = [req EXCEPT ![r].pc = "check_payment",
                          ![r].account = IF req[r].account_id \in DOMAIN accounts
                                         THEN accounts[req[r].account_id] ELSE None]
    /\ UNCHANGED <<users, accounts, payments, opening>>

\* _check_account
CheckAccount(r) ==
    /\ req[r].pc = "check_account"
    /\ LET account == IF req[r].account_id \in DOMAIN accounts
                      THEN accounts[req[r].account_id] ELSE None
       IN  IF account # None /\ OwnerDiffers(account, req[r].user_id)
           THEN Raise(r, "Account does not belong to the specified user")
           ELSE req' = [req EXCEPT ![r].pc = "check_payment", ![r].account = account]
    /\ UNCHANGED <<users, accounts, payments, opening>>

\* the two checks of _check_payment in the other order
CheckSignatureThenPayment(r) ==
    /\ req[r].pc = "check_payment"
    /\ IF ~Truthy(verify_signature(SignatureData(req[r])))
       THEN Raise(r, "Signature is incorrect")
       ELSE IF get_payment(payments, req[r].transaction_id) # None
       THEN Raise(r, "Transaction with this id already exists")
       ELSE req' = [req EXCEPT ![r].pc = IF req[r].account = None
                                          THEN "create_account" ELSE "change_balance"]
    /\ UNCHANGED <<users, accounts, payments, opening>>

\* _check_payment
CheckPayment(r) ==
    /\ req[r].pc = "check_payment"
    /\ IF get_payment(payments, req[r].transaction_id) # None
       THEN Raise(r, "Transaction with this id already exists")
       ELSE IF ~Truthy(verify_signature(SignatureData(req[r])))
       THEN Raise(r, "Signature is incorrect")
       ELSE req' = [req EXCEPT ![r].pc = IF req[r].account = None
                                          THEN "create_account" ELSE "change_balance"]
    /\ UNCHANGED <<users, accounts, payments, opening>>

\* AccountDAL.create_account: INSERT, the primary key rejects an existing id
CreateAccount(r) ==
    /\ req[r].pc = "create_account"
    /\ IF req[r].account_id \in DOMAIN accounts
       THEN /\ Raise(r, "IntegrityError")
            /\ UNCHANGED accounts
       ELSE LET account == NewAccount(req[r].account_id, req[r].user_id)
            IN  /\ accounts' = (req[r].account_id :> account) @@ accounts
                /\ req' = [req EXCEPT ![r].pc = "change_balance",
                                      ![r].account = account,
                                      ![r].writes = Append(@, "create_account")]
    /\ UNCHANGED <<users, payments, opening>>

\* an UPDATE without the WHERE of the primary key
change_balance_of_all(accts, account, amount) ==
    [b \in DOMAIN accts |-> [accts[b] EXCEPT !.balance = account.balance + amount]]

\* AccountDAL.change_balance: account.balance += amount on the object the
\* session holds, flushed as an UPDATE of that row
change_balance(accts, account, amount) ==
    [accts EXCEPT ![account.account_id].balance = account.balance + amount]

\* AccountDAL.change_balance on the Account object the request holds, then the
\* call of add_payment_to_database, which raises before it first awaits
ChangeBalance(r) ==
    /\ req[r].pc = "change_balance"
    /\ LET stored  == change_balance(accounts, req[r].account, req[r].amount)
           added   == add_payment_to_database(payments, stored, AddPaymentKwargs(req[r]))
       IN  /\ accounts' = stored
           /\ payments' = added.payments
           /\ req' = [req EXCEPT
                        ![r].pc = "done",
                        ![r].account = None,
                        ![r].outcome = added.exc,
                        ![r].writes = IF added.exc = "ok"
                                      THEN @ \o <<"change_balance", "add_payment">>
                                      ELSE Append(@, "change_balance")]
    /\ UNCHANGED <<users, opening>>

\* a writing DAL call of the commit fails in the database: its transaction
\* rolls back and the exception leaves process_payment
StorageFailure(r) ==
    /\ req[r].pc \in {"create_account", "change_balance"}
    /\ Raise(r, "OperationalError")
    /\ UNCHANGED <<users, accounts, payments, opening>>

-----------------------------------------------------------------------------
(* api/payment.py: GET /payment/, services.py: PaymentService.get_payments *)

\* AccountDAL.get_accounts_by_user_id: the accounts of the user, in no
\* particular order
get_accounts_by_user_id(accts, user_id) ==
    {a \in DOMAIN accts : accts[a].user_id = user_id}

\* a select without its filter
get_payments_of_any_account(pays, account_id) == pays

\* PaymentDAL.get_payments_by_account_id
get_payments_by_account_id(pays, account_id) ==
    SelectSeq(pays, LAMBDA p : p.account_id = account_id)

\* the handler after get_payments returned the list
Listed(r, list) ==
    req' = [req EXCEPT ![r].pc = "listed", ![r].pending = {}, ![r].found = list,
                       ![r].outcome = IF list = <<>> THEN "User does not have payments"
                                                     ELSE "ok"]

\* GET /payment/ of an authenticated user
SubmitGet(r) ==
    /\ ~Arrived(r)
    /\ \E u \in DOMAIN users :
         LET q == [IdleRequest EXCEPT !.pc = "get_accounts_by_user_id", !.user_id = u]
         IN  /\ Fits(r, ListRank(u))
             /\ req' = [req EXCEPT ![r] = q]
    /\ UNCHANGED <<users, accounts, payments, opening>>

\* the admin check of the handler, then get_payments up to its first query
GetAccounts(r) ==
    /\ req[r].pc = "get_accounts_by_user_id"
    /\ IF users[req[r].user_id].is_admin
       THEN req' = [req EXCEPT ![r].pc = "listed",
                               ![r].outcome = "Admin cannot have payments"]
       ELSE LET accs == get_accounts_by_user_id(accounts, req[r].user_id)
            IN  IF accs = {}
                THEN Listed(r, <<>>)
                ELSE req' = [req EXCEPT ![r].pc = "get_payments_by_account_id",
                                        ![r].pending = accs]
    /\ UNCHANGED <<users, accounts, payments, opening>>

\* one turn of the loop of get_payments; after the last turn the list returns
GetPaymentsByAccount(r) ==
    /\ req[r].pc = "get_payments_by_account_id"
    /\ \E acc \in req[r].pending :
         LET list == req[r].found \o get_payments_by_account_id(payments, acc)
         IN  IF req[r].pending = {acc}
             THEN Listed(r, list)
             ELSE req' = [req EXCEPT ![r].pending = @ \ {acc}, ![r].found = list]
    /\ UNCHANGED <<users, accounts, payments, opening>>

\* what the handler of GET /payment/ answers
ListResponse(outcome) ==
    IF outcome = "ok" THEN 200
    ELSE IF outcome = "Admin cannot have payments" THEN 403
    ELSE IF outcome = "User does not have payments" THEN 404
    ELSE 500

-----------------------------------------------------------------------------

Next ==
    \E r \in Requests :
        \/ Submit(r)
        \/ CheckUser(r)
        \/ CheckAccount(r)
        \/ CheckPayment(r)
        \/ CreateAccount(r)
        \/ ChangeBalance(r)
        \/ StorageFailure(r)
        \/ SubmitGet(r)
        \/ GetAccounts(r)
        \/ GetPaymentsByAccount(r)

Spec == Init /\ [][Next]_vars

-----------------------------------------------------------------------------
(* api/user.py: PATCH /user/, services.py: UserService.update_user *)

\* body.model_dump(exclude_none=True) of a UserUpdateSchema that is not empty
ParametersForUpdate ==
    { [full_name |-> "n1"], [password1 |-> "p1"],
      [full_name |-> "n1", password1 |-> "p1"] }

\* an update that also makes the user an admin
update_user_to_admin(user, parameters_for_update) ==
    [user EXCEPT !.is_admin = TRUE]

\* UserDAL.update_user: full_name is set when given; the password is set on an
\* attribute that is no column, so nothing of it is stored
update_user(user, parameters_for_update) ==
    IF "full_name" \in DOMAIN parameters_for_update
    THEN [user EXCEPT !.full_name = parameters_for_update.full_name]
    ELSE user

\* UserService.update_user called by an admin: ValueError for no user and
\* PermissionError for an admin leave the database as it is
UpdateUser(user_id, parameters_for_update) ==
    /\ LET user_for_update == get_user_by_id(users, user_id)
       IN  IF user_for_update = None \/ user_for_update.is_admin
           THEN UNCHANGED users
           ELSE users' = [users EXCEPT
                            ![user_id] = update_user(user_for_update,
                                                     parameters_for_update)]
    /\ UNCHANGED <<accounts, payments, req, opening>>

UserNext ==
    \/ Next
    \/ \E user_id \in UserIds, parameters_for_update \in ParametersForUpdate :
          UpdateUser(user_id, parameters_for_update)

\* the payments and the administration of the users side by side
UserSpec == Init /\ [][UserNext]_vars

-----------------------------------------------------------------------------
(* The claims *)

Done(r) == req[r].pc = "done"

Alone(r) == \A s \in Requests : s # r => ~Arrived(s)

Answer(r) == Response(req[r].outcome)

\* the errors of the specification, as the handler reports them
ConflictError(r) ==
    Answer(r) = [status |-> 400, detail |-> "Transaction with this id already exists"]

NotOwnedError(r) ==
    Answer(r) = [status |-> 400,
                 detail |-> "Account does not belong to the specified user"]

BadSignatureError(r) ==
    Answer(r) = [status |-> 400, detail |-> "Signature is incorrect"]

Succeeded(r) == Answer(r).status = 200

StorageFailed(r) == req[r].outcome = "OperationalError"

Rows(pays, t) == {i \in 1..Len(pays) : pays[i].transaction_id = t}

RECURSIVE PaidInto(_, _)
PaidInto(pays, a) ==
    IF pays = <<>> THEN 0
    ELSE (IF Head(pays).account_id = a THEN Head(pays).amount ELSE 0)
         + PaidInto(Tail(pays), a)

Crediting(a) ==
    {r \in Requests : req[r].account_id = a
                      /\ \E i \in 1..Len(req[r].writes) : req[r].writes[i] = "change_balance"}

RECURSIVE SumAmounts(_)
SumAmounts(S) ==
    IF S = {} THEN 0
    ELSE LET r == CHOOSE x \in S : TRUE IN req[r].amount + SumAmounts(S \ {r})

OpeningBalance(a) ==
    IF a \in DOMAIN opening.accounts THEN opening.accounts[a].balance ELSE 0

RegularUser(u) == u \in DOMAIN users /\ ~users[u].is_admin

TokenMatches(r) == req[r].signature = _generate_signature(SignatureData(req[r]))

\* the request was a valid first submission when the service started
ValidFirst(r) ==
    /\ RegularUser(req[r].user_id)
    /\ req[r].account_id \in DOMAIN opening.accounts
         => opening.accounts[req[r].account_id].user_id = req[r].user_id
    /\ Rows(opening.payments, req[r].transaction_id) = {}
    /\ TokenMatches(r)

StoredAtStart(r) == Rows(opening.payments, req[r].transaction_id) # {}

ForeignAtStart(r) ==
    /\ req[r].account_id \in DOMAIN opening.accounts
    /\ opening.accounts[req[r].account_id].user_id # req[r].user_id

\* C1: in every reachable state at most one Payment row exists for any
\* transaction identifier.
C1_AtMostOnePaymentPerTransaction ==
    \A i, j \in 1..Len(payments) :
        payments[i].transaction_id = payments[j].transaction_id => i = j

\* two requests with one transaction id both passed the existence check and
\* both ran the commit to its end
C1_Witness ==
    \E r, s \in Requests :
        /\ r # s /\ Done(r) /\ Done(s)
        /\ req[r].transaction_id = req[s].transaction_id
        /\ r \in Crediting(req[r].account_id) /\ s \in Crediting(req[s].account_id)

\* C2: in every committed state each account's balance equals the sum of the
\* amounts of the Payment rows stored for that account.
C2_BalanceMatchesPayments ==
    \A a \in DOMAIN accounts : accounts[a].balance = PaidInto(payments, a)

\* C3: a valid first submission, served alone and without a storage failure,
\* returns success, leaves exactly one Payment row with its transaction id and
\* the balance of its account raised by exactly its amount.
C3_ValidFirstSubmissionApplied ==
    \A r \in Requests :
        (Done(r) /\ Alone(r) /\ ValidFirst(r) /\ ~StorageFailed(r)) =>
            /\ Succeeded(r)
            /\ Cardinality(Rows(payments, req[r].transaction_id)) = 1
            /\ req[r].account_id \in DOMAIN accounts
            /\ accounts[req[r].account_id].balance
                 = OpeningBalance(req[r].account_id) + req[r].amount

\* C4, as stated: a request whose transaction id is already stored always ends
\* in ConflictError.
C4_ResubmissionAlwaysConflict ==
    \A r \in Requests : (Done(r) /\ StoredAtStart(r)) => ConflictError(r)

\* C4, amended: a request whose transaction id is already stored writes
\* nothing, whatever its other fields are, and ends in the error of the first
\* failing step: the payer's error when the payer is no user or an admin, the
\* account's error only when another user owns the account, and ConflictError
\* in every other case.
C4_ResubmissionRejectedUnchanged ==
    \A r \in Requests :
        (Done(r) /\ StoredAtStart(r)) =>
            /\ req[r].writes = <<>>
            /\ req[r].user_id \notin DOMAIN users =>
                  Answer(r) = [status |-> 400, detail |-> "User does not exist"]
            /\ (req[r].user_id \in DOMAIN users /\ users[req[r].user_id].is_admin) =>
                  Answer(r).status = 403
            /\ RegularUser(req[r].user_id) => (ConflictError(r) \/ NotOwnedError(r))
            /\ NotOwnedError(r) =>
                  /\ req[r].account_id \in DOMAIN accounts
                  /\ accounts[req[r].account_id].user_id # req[r].user_id

\* a stored transaction id was resubmitted with another signature and answered
\* with ConflictError
C4_Witness ==
    \E r \in Requests :
        /\ Done(r) /\ StoredAtStart(r) /\ ConflictError(r)
        /\ req[r].signature # SeedSignature

\* C5: when two requests with one transaction id both pass the existence
\* check, one succeeds, the other ends in ConflictError, one Payment row exists
\* and the account is credited once.
C5_RaceAppliedOnce ==
    \A r, s \in Requests :
        ( /\ r # s /\ Done(r) /\ Done(s)
          /\ req[r].transaction_id = req[s].transaction_id
          /\ req[r].account_id = req[s].account_id
          /\ ValidFirst(r) /\ ValidFirst(s)
          /\ ~StorageFailed(r) /\ ~StorageFailed(s)
          /\ \A x \in Requests : x \in {r, s} \/ ~Arrived(x) ) =>
            /\ (Succeeded(r) /\ ConflictError(s)) \/ (Succeeded(s) /\ ConflictError(r))
            /\ Cardinality(Rows(payments, req[r].transaction_id)) = 1
            /\ req[r].account_id \in DOMAIN accounts
            /\ accounts[req[r].account_id].balance
                 = OpeningBalance(req[r].account_id) + req[r].amount

\* C6: once every request is over, an account that existed at the start and was
\* credited by requests with distinct transaction ids holds its opening
\* balance plus the sum of their amounts.
C6_NoLostUpdate ==
    \A a \in DOMAIN opening.accounts :
        ( /\ \A r \in Requests : ~Arrived(r) \/ Done(r)
          /\ \A r, s \in Crediting(a) :
                r # s => req[r].transaction_id # req[s].transaction_id ) =>
            accounts[a].balance = OpeningBalance(a) + SumAmounts(Crediting(a))

\* C7: a request writes to the ledger only if its token equals the recomputed
\* signature, and a request that fails no earlier check and whose token does
\* not match ends in ValidationError.
C7_MutationOnlyWithMatchingToken ==
    \A r \in Requests :
        /\ req[r].writes # <<>> => TokenMatches(r)
        /\ (Done(r) /\ ~TokenMatches(r) /\ RegularUser(req[r].user_id)
              /\ ~StoredAtStart(r) /\ ~NotOwnedError(r)) => BadSignatureError(r)

\* C8: a request that ends in a failure has written nothing: no account, no
\* balance, no payment.
C8_FailureLeavesNoTrace ==
    \A r \in Requests : (Done(r) /\ ~Succeeded(r)) => req[r].writes = <<>>

\* C9: a valid payment for an account id that does not exist, served alone and
\* without a storage failure, leaves one Account of that id owned by the
\* payment's user with balance equal to the amount, and one stored Payment.
C9_LazyAccountCreation ==
    \A r \in Requests :
        ( /\ Done(r) /\ Alone(r) /\ ValidFirst(r) /\ ~StorageFailed(r)
          /\ req[r].account_id \notin DOMAIN opening.accounts ) =>
            /\ req[r].account_id \in DOMAIN accounts
            /\ accounts[req[r].account_id].user_id = req[r].user_id
            /\ accounts[req[r].account_id].balance = req[r].amount
            /\ Cardinality(Rows(payments, req[r].transaction_id)) = 1

\* C10: a payment of a user for an account that another user owns ends in
\* ValidationError ("Account does not belong to the specified user") and has
\* written nothing; no request goes on past the account check holding an
\* account of another user.
C10_ForeignAccountRejected ==
    \A r \in Requests :
        /\ (Done(r) /\ RegularUser(req[r].user_id) /\ ForeignAtStart(r))
              => NotOwnedError(r)
        /\ (Done(r) /\ NotOwnedError(r)) =>
              /\ req[r].writes = <<>>
              /\ req[r].account_id \in DOMAIN accounts
              /\ accounts[req[r].account_id].user_id # req[r].user_id
        /\ (req[r].pc \in {"check_payment", "create_account", "change_balance"}
              /\ req[r].account # None) => req[r].account.user_id = req[r].user_id

\* a user's payment for the account of another user was answered, while another
\* request had credited that account
C10_Witness ==
    \E r \in Requests :
        /\ Done(r) /\ ForeignAtStart(r) /\ NotOwnedError(r)
        /\ Crediting(req[r].account_id) # {}

\* C11: a payment for a user id that does not exist ends in NotFoundError
\* ("User does not exist"), a payment for an admin ends in ForbiddenError
\* (403); in both cases the request has written nothing: no account, no
\* balance, no payment.
C11_PayerRejected ==
    \A r \in Requests :
        Done(r) =>
            /\ req[r].user_id \notin DOMAIN users =>
                  /\ Answer(r) = [status |-> 400, detail |-> "User does not exist"]
                  /\ req[r].writes = <<>>
            /\ (req[r].user_id \in DOMAIN users /\ users[req[r].user_id].is_admin) =>
                  /\ Answer(r).status = 403
                  /\ req[r].writes = <<>>
            /\ (Answer(r).status = 403 \/ Answer(r).detail = "User does not exist") =>
                  ~RegularUser(req[r].user_id)

\* a payment for an absent user and a payment for an admin were both answered,
\* each naming an account that does not exist
C11_Witness ==
    \E r, s \in Requests :
        /\ Done(r) /\ req[r].user_id \notin DOMAIN users
        /\ Done(s) /\ req[s].user_id \in DOMAIN users /\ users[req[s].user_id].is_admin
        /\ req[r].account_id \notin DOMAIN accounts
        /\ req[s].account_id \notin DOMAIN accounts

SameBody(r, s) ==
    /\ req[r].transaction_id = req[s].transaction_id
    /\ req[r].user_id = req[s].user_id
    /\ req[r].account_id = req[s].account_id
    /\ req[r].amount = req[s].amount
    /\ req[r].signature = req[s].signature

\* r repeats a valid first submission whose earlier attempts all failed in the
\* commit, and is itself served to its end without a storage failure
RetryServed(r) ==
    /\ Done(r) /\ req[r].retry /\ ValidFirst(r) /\ ~StorageFailed(r)
    /\ \A s \in Requests :
          (s # r /\ Arrived(s)) => (Done(s) /\ SameBody(r, s) /\ Answer(s).status = 500)

\* C12: a valid payload resubmitted after its call failed in the commit is not
\* rejected as a duplicate, the attempts together credit the account at most
\* once, and a retry that succeeds leaves the account credited exactly once
\* and exactly one Payment row.
C12_RetryAppliesOnce ==
    \A r \in Requests :
        RetryServed(r) =>
            /\ ~ConflictError(r)
            /\ req[r].account_id \in DOMAIN accounts =>
                  accounts[req[r].account_id].balance
                     \in {OpeningBalance(req[r].account_id),
                          OpeningBalance(req[r].account_id) + req[r].amount}
            /\ Succeeded(r) =>
                  /\ Cardinality(Rows(payments, req[r].transaction_id)) = 1
                  /\ req[r].account_id \in DOMAIN accounts
                  /\ accounts[req[r].account_id].balance
                        = OpeningBalance(req[r].account_id) + req[r].amount

\* the outcome of the specification that an answer of the handler stands for
Kind(answer) ==
    IF answer.status = 200 THEN "success"
    ELSE IF answer.status = 403 THEN "ForbiddenError"
    ELSE IF answer.status = 500 THEN "StorageError"
    ELSE IF answer.detail = "User does not exist" THEN "NotFoundError"
    ELSE IF answer.detail = "Transaction with this id already exists"
    THEN "ConflictError"
    ELSE IF answer.detail \in {"Account does not belong to the specified user",
                               "Signature is incorrect"}
    THEN "ValidationError"
    ELSE "unknown"

\* the position of a request in process_payment
PcRank(pc) ==
    CASE pc = "idle" -> 0
      [] pc = "check_user" -> 1
      [] pc = "check_account" -> 2
      [] pc = "check_payment" -> 3
      [] pc = "create_account" -> 4
      [] pc = "change_balance" -> 5
      [] pc = "done" -> 6

NextStep(r) ==
    \/ CheckUser(r) \/ CheckAccount(r) \/ CheckPayment(r)
    \/ CreateAccount(r) \/ ChangeBalance(r)

C13_OutcomeOfItsKind ==
    \A r \in Requests :
        /\ (~Reading(req[r]) /\ ~Done(r)) => req[r].outcome = "none"
        /\ (Arrived(r) /\ ~Reading(req[r]) /\ ~Done(r)) => ENABLED NextStep(r)
        /\ Done(r) =>
              /\ Kind(Answer(r)) \in {"success", "NotFoundError", "ForbiddenError",
                                      "ValidationError", "ConflictError", "StorageError"}
              /\ Kind(Answer(r)) = "NotFoundError" <=> req[r].user_id \notin DOMAIN users
              /\ Kind(Answer(r)) = "ForbiddenError"
                    <=> (req[r].user_id \in DOMAIN users /\ users[req[r].user_id].is_admin)
              /\ Kind(Answer(r)) = "ValidationError" =>
                    \/ /\ req[r].account_id \in DOMAIN accounts
                       /\ accounts[req[r].account_id].user_id # req[r].user_id
                    \/ ~TokenMatches(r)
              /\ Kind(Answer(r)) = "ConflictError" =>
                    get_payment(payments, req[r].transaction_id) # None
              /\ Kind(Answer(r)) = "StorageError" <=>
                    req[r].outcome \in {"OperationalError", "IntegrityError", "TypeError"}

C13_EachStepOnce ==
    \A r \in Requests :
        (req'[r] # req[r] /\ ~Reading(req'[r])) =>
            /\ PcRank(req'[r].pc) > PcRank(req[r].pc)
            /\ Done(r)' => req'[r].outcome # "none"

Range(seq) == {seq[i] : i \in 1..Len(seq)}

\* the Payment rows of the accounts that user u owns
PaymentsOf(u) ==
    {p \in Range(payments) :
        p.account_id \in DOMAIN accounts /\ accounts[p.account_id].user_id = u}

\* GET /payment/ of a user who is no admin has been answered
ListedFor(r) == req[r].pc = "listed" /\ ~users[req[r].user_id].is_admin

\* the list get_payments returned holds every payment of the user's accounts
\* once, and nothing else
ExactUnion(r) ==
    /\ Range(req[r].found) = PaymentsOf(req[r].user_id)
    /\ Len(req[r].found) = Cardinality(PaymentsOf(req[r].user_id))

\* C14, as stated: a user who is no admin gets exactly the payments of the
\* accounts the user owns, and gets the empty list, not a failure, when there
\* are none.
C14_ListOrEmptyNeverFailure ==
    \A r \in Requests :
        ListedFor(r) => (ExactUnion(r) /\ ListResponse(req[r].outcome) = 200)

\* C14, amended: get_payments returns exactly the payments of the accounts the
\* user owns, the empty list when there are none; the handler of GET /payment/
\* answers a list that is not empty with 200 and the empty list with the
\* failure 404 "User does not have payments".
C14_ListOrNotFound ==
    \A r \in Requests :
        ListedFor(r) =>
            /\ ExactUnion(r)
            /\ req[r].found # <<>> => ListResponse(req[r].outcome) = 200
            /\ req[r].found = <<>> =>
                  /\ req[r].outcome = "User does not have payments"
                  /\ ListResponse(req[r].outcome) = 404

\* a user who owns an account without payments, created while another account
\* holds a payment, asked for the payments and was answered 404
C14_Witness ==
    \E r \in Requests :
        /\ ListedFor(r) /\ ListResponse(req[r].outcome) = 404
        /\ get_accounts_by_user_id(accounts, req[r].user_id) # {}
        /\ payments # <<>>

\* C15: for the payment dict of every request that was submitted,
\* verify_signature returns a true value exactly when the token equals the hex SHA-256
\* of the other field values, concatenated in the order of the sorted keys and
\* followed by the secret.
C15_VerifierRecomputesToken ==
    \A r \in Requests :
        (Arrived(r) /\ ~Reading(req[r])) =>
            (Truthy(verify_signature(SignatureData(req[r])))
                <=> req[r].signature = _generate_signature(SignatureData(req[r])))

OwnAtStart(r) ==
    /\ req[r].account_id \in DOMAIN opening.accounts
    /\ opening.accounts[req[r].account_id].user_id = req[r].user_id

\* C16: the checks run in the order payer, ownership, idempotency,
\* authenticity and the first that fails decides the error: an absent or admin
\* payer is reported whatever the other fields are, a foreign account with a
\* stored transaction id is a ValidationError, a stored transaction id with a
\* wrong token is a ConflictError.
C16_FirstFailingStepReported ==
    \A r \in Requests :
        Done(r) =>
            /\ req[r].user_id \notin DOMAIN users => Kind(Answer(r)) = "NotFoundError"
            /\ (req[r].user_id \in DOMAIN users /\ users[req[r].user_id].is_admin)
                  => Kind(Answer(r)) = "ForbiddenError"
            /\ (RegularUser(req[r].user_id) /\ ForeignAtStart(r) /\ StoredAtStart(r))
                  => (NotOwnedError(r) /\ Kind(Answer(r)) = "ValidationError")
            /\ (RegularUser(req[r].user_id) /\ OwnAtStart(r) /\ StoredAtStart(r)
                   /\ ~TokenMatches(r))
                  => (ConflictError(r) /\ Kind(Answer(r)) = "ConflictError")
            /\ BadSignatureError(r) =>
                  (RegularUser(req[r].user_id) /\ ~ForeignAtStart(r) /\ ~StoredAtStart(r))

\* a foreign account with a stored transaction id and a stored transaction id
\* with an empty token were both answered
C16_Witness ==
    \E r, s \in Requests :
        /\ Done(r) /\ RegularUser(req[r].user_id) /\ ForeignAtStart(r) /\ StoredAtStart(r)
        /\ ~TokenMatches(r)
        /\ Done(s) /\ OwnAtStart(s) /\ StoredAtStart(s) /\ req[s].signature = <<>>

\* create_account of request r was refused because the id existed
CreationRefused(r) == Done(r) /\ req[r].outcome = "IntegrityError" /\ req[r].writes = <<>>

\* C17: a request whose create_account meets an account id that exists, as the
\* loser of two concurrent valid payments for an absent account does, ends in
\* ConflictError; it has credited nothing and the account keeps the owner
\* that its creator gave it.
C17_CreationConflictReported ==
    \A r, s \in Requests :
        ( /\ CreationRefused(r) /\ ValidFirst(r) /\ ValidFirst(s)
          /\ req[s].account_id = req[r].account_id
          /\ req[s].transaction_id # req[r].transaction_id ) =>
            /\ Kind(Answer(r)) = "ConflictError"
            /\ r \notin Crediting(req[r].account_id)
            /\ req[r].account_id \in DOMAIN accounts
            /\ req[s].writes # <<>> /\ Head(req[s].writes) = "create_account"
            /\ accounts[req[r].account_id].user_id = req[s].user_id

C18_StoredPaymentsKept ==
    /\ Len(payments') >= Len(payments)
    /\ \A i \in 1..Len(payments) : payments'[i] = payments[i]

\* C18: no step of a process_payment or of a get_payments changes or removes
\* a Payment row that is stored: every step keeps the stored rows as they are
\* and at most adds rows after them.
C18_PaymentsImmutable == [][C18_StoredPaymentsKept]_vars

\* with a payment stored, a process_payment ran its commit for the account
\* of that payment and a get_payments listed the payment
C18_Witness ==
    /\ payments # <<>>
    /\ \E r, s \in Requests :
          /\ Done(r) /\ r \in Crediting(payments[1].account_id)
          /\ req[s].pc = "listed" /\ req[s].found # <<>>

PaymentsInto(pays, a) == SelectSeq(pays, LAMBDA p : p.account_id = a)

\* a step of a process_payment for one account leaves the others alone
C19_OtherAccountsUntouched ==
    \A r \in Requests :
        (req'[r] # req[r] /\ ~Reading(req'[r])) =>
            \A b \in AccountIds \ {req'[r].account_id} :
                /\ b \in DOMAIN accounts' <=> b \in DOMAIN accounts
                /\ b \in DOMAIN accounts => accounts'[b] = accounts[b]
                /\ PaymentsInto(payments', b) = PaymentsInto(payments, b)

\* r and s are valid payments for two accounts, the only requests, both
\* served to the end without a storage failure
TwoAccountsPaid(r, s) ==
    /\ Done(r) /\ Done(s) /\ req[r].account_id # req[s].account_id
    /\ ValidFirst(r) /\ ValidFirst(s) /\ ~StorageFailed(r) /\ ~StorageFailed(s)
    /\ \A x \in Requests : x \in {r, s} \/ ~Arrived(x)

\* the final state is one function of the two requests, whatever the order
\* of their steps was
C19_OneFinalState ==
    \A r, s \in Requests :
        TwoAccountsPaid(r, s) =>
            /\ DOMAIN accounts = DOMAIN opening.accounts
                                   \cup {req[r].account_id, req[s].account_id}
            /\ \A x \in {r, s} :
                  accounts[req[x].account_id] =
                     [account_id |-> req[x].account_id, user_id |-> req[x].user_id,
                      balance |-> OpeningBalance(req[x].account_id) + req[x].amount]
            /\ \A b \in DOMAIN opening.accounts \ {req[r].account_id, req[s].account_id} :
                  accounts[b] = opening.accounts[b]
            /\ payments = opening.payments
            /\ req[r].outcome = req[s].outcome

\* C19: every step of a process_payment for account a leaves every other
\* account and the payments of every other account unchanged, and two valid
\* payments for different accounts end in the same state under every
\* interleaving of their steps, the sequential ones included.
C19_AccountsIndependent == []C19_OneFinalState /\ [][C19_OtherAccountsUntouched]_vars

\* two valid payments for different accounts both ran their commit
C19_Witness ==
    \E r, s \in Requests :
        /\ TwoAccountsPaid(r, s)
        /\ r \in Crediting(req[r].account_id) /\ s \in Crediting(req[s].account_id)

\* the request went on past the signature test of _check_payment
PassedAuthenticity(r) ==
    \/ req[r].pc \in {"create_account", "change_balance"}
    \/ Done(r) /\ req[r].outcome \in {"ok", "OperationalError", "IntegrityError", "TypeError"}

\* C20: the signature check only confirms that a token is present: the value
\* of verify_signature is decided by the signature field alone, a request
\* passes the authenticity step with every non-empty signature, whatever its
\* other fields are, and "Signature is incorrect" is the answer only to an
\* empty signature.
C20_PresenceOnly ==
    \A r \in Requests :
        (Arrived(r) /\ ~Reading(req[r])) =>
            /\ verify_signature(SignatureData(req[r]))
                  = verify_signature([signature |-> req[r].signature])
            /\ Truthy(verify_signature(SignatureData(req[r]))) <=> req[r].signature # <<>>
            /\ BadSignatureError(r) => req[r].signature = <<>>
            /\ PassedAuthenticity(r) => req[r].signature # <<>>
            /\ (Done(r) /\ req[r].signature # <<>> /\ RegularUser(req[r].user_id)
                  /\ ~NotOwnedError(r) /\ ~ConflictError(r)) => PassedAuthenticity(r)
            /\ (Done(r) /\ req[r].signature = <<>> /\ RegularUser(req[r].user_id)
                  /\ ~NotOwnedError(r) /\ ~ConflictError(r)) => BadSignatureError(r)

\* a request with a forged token passed the authenticity step and wrote, and a
\* request with an empty token was answered "Signature is incorrect"
C20_Witness ==
    \E r, s \in Requests :
        /\ Done(r) /\ req[r].signature = ForgedSignature /\ req[r].writes # <<>>
        /\ Done(s) /\ req[s].signature = <<>> /\ BadSignatureError(s)

\* C21: no account is owned by an admin: the owner of every account is a user
\* who is no admin, no user's admin flag differs from the one the user started
\* with, and every account that existed at the start keeps its owner.
C21_NoAdminOwnsAccount ==
    /\ \A a \in DOMAIN accounts :
          /\ accounts[a].user_id \in DOMAIN users
          /\ ~users[accounts[a].user_id].is_admin
    /\ DOMAIN users = DOMAIN SeedUsers
    /\ \A u \in DOMAIN users : users[u].is_admin = SeedUsers[u].is_admin
    /\ \A a \in DOMAIN opening.accounts :
          /\ a \in DOMAIN accounts
          /\ accounts[a].user_id = opening.accounts[a].user_id

\* an account was created by a payment after its owner had been updated, and
\* the payment of an admin for the same account id was rejected
C21_Witness ==
    \E r, s \in Requests :
        /\ req[r].writes # <<>> /\ Head(req[r].writes) = "create_account"
        /\ users[req[r].user_id].full_name = "n1"
        /\ Done(s) /\ Answer(s).status = 403
        /\ req[s].account_id = req[r].account_id

\* process_payment of r has called add_payment_to_database: the call follows
\* change_balance without an await between them
CalledAddPayment(r) ==
    \E i \in 1..Len(req[r].writes) : req[r].writes[i] = "change_balance"

StoredPayment(r) ==
    \E i \in 1..Len(req[r].writes) : req[r].writes[i] = "add_payment"

====
